---- MODULE Spec2Model ----
(***************************************************************************)
(* Model of monitors.py: the three module-level prometheus gauges and the  *)
(* MonitorThread / QueueMonitorThread / WorkerMonitorThread pollers.       *)
(*                                                                         *)
(* A python dict is a function whose DOMAIN is its key set; a gauge family *)
(* is a function from the label tuples of its registered series to their   *)
(* values, next to the list of its children in creation order.  Threads    *)
(* interleave between the calls on a gauge family: collect() is one step,  *)
(* every set(0) of a reset loop is one step, every labels() that creates a *)
(* child is one step and every set() is one step.  A labels() that finds   *)
(* its child registered changes nothing and is taken with the set() that   *)
(* follows it; reads of the thread's own data are taken with the call they *)
(* precede or follow.                                                      *)
(***************************************************************************)
EXTENDS Integers, Sequences, FiniteSets, TLC

(* ---------------------------- bounds ----------------------------------- *)
\* longest active_queues / data list in a response
MaxLen == 2
\* largest `messages` value in a queue entry
MaxMsg == 2
\* value at which the count of consecutive failed cycles saturates
MaxFails == 2

\* the poller objects of the process: one or two (see Init)
Pollers == {1, 2}
\* list lengths of the responses when two pollers run
SharedLengths == {0, 1}
Hosts == {"h1", "h2"}
Kinds == {"queue", "worker"}
QueueNames == {"qa", "qb"}
WorkerNames == {"w1", "w2"}

(* ---------------------------- python dicts ----------------------------- *)
EmptyDict == [k \in {} |-> 0]

\* d.get(k, default)
DictGet(d, k, default) == IF k \in DOMAIN d THEN d[k] ELSE default

Merge(d1, d2) == [k \in (DOMAIN d1) \cup (DOMAIN d2) |->
                    IF k \in DOMAIN d1 THEN d1[k] ELSE d2[k]]

\* the lists over S of the given lengths
SeqsOfLen(S, lens) == UNION {[1..k -> S] : k \in lens}

(* ---------------------------- gauge families --------------------------- *)
\* Gauge.labels(**key): the child of the label tuple, created at 0 when new
Labels(g, key) == IF key \in DOMAIN g THEN g
                  ELSE [k \in (DOMAIN g) \cup {key} |-> IF k = key THEN 0 ELSE g[k]]

\* a gauge that adds where it should overwrite (Gauge.inc)
GaugeInc(g, key, v) ==
    [k \in (DOMAIN g) \cup {key} |-> IF k = key THEN (IF k \in DOMAIN g THEN g[k] ELSE 0) + v
                                     ELSE g[k]]

\* Gauge.labels(**key).set(v)
GaugeSet(g, key, v) == [k \in (DOMAIN g) \cup {key} |-> IF k = key THEN v ELSE g[k]]

\* a reset that unregisters the series (Gauge.remove)
ResetOneRemove(g, key) == [k \in (DOMAIN g) \ {key} |-> g[k]]

\* G.labels(**sample[1]).set(0) for one collected sample
ResetOne(g, key) == [k \in DOMAIN g |-> IF k = key THEN 0 ELSE g[k]]

\* a collect() that yields no sample
CollectNone(order) == <<>>

\* G.collect(): the samples of the children, in the order of their creation
Collect(order) == order

\* the series of family g, each tagged with the family's name
Series(name, g) == {<<name, k>> : k \in DOMAIN g}

(* ---------------------------- responses -------------------------------- *)
StatusCodes == {200, 204, 404, 500}
\* a check that lets every 2xx status through
StatusOk2xx(code) == code \in 200..299

\* if data.status_code != 200: ... continue
StatusOk(code) == code = 200

\* the arguments of the three time.sleep calls
BadStatusDelay == 1
CycleDelay == 1
\* the connection-error branch sleeping as the bad-status branch does
ConnErrorDelayAsStatus == BadStatusDelay
ConnErrorDelay == 5

\* suffixes of the two endpoint properties
EndpointSuffix(k) == IF k = "queue" THEN "/api/queues/length" ELSE "/dashboard?json=1"

\* the status label and the w_info key of the seven per-worker gauges, in source order
CounterOf == <<  <<"received", "task-received">>, <<"started", "task-started">>,
                 <<"failed", "task-failed">>, <<"retried", "task-retried">>,
                 <<"succeeded", "task-succeeded">>, <<"processed", "processed">>,
                 <<"active", "active">> >>
TaskStatuses == {CounterOf[i][1] : i \in DOMAIN CounterOf}
CounterKeys == {CounterOf[i][2] : i \in DOMAIN CounterOf}

\* queue entries over the given names and values: `name` and `messages` each
\* present or absent
QueueEntries(names, msgs) ==
    {[name |-> n, messages |-> m] : n \in names, m \in msgs}
    \cup {[name |-> n] : n \in names}
    \cup {[messages |-> m] : m \in msgs}

QueuePayloads(names, msgs, lens) ==
    {[active_queues |-> s] : s \in SeqsOfLen(QueueEntries(names, msgs), lens)} \cup {EmptyDict}

\* the optional counters of a worker entry: all seven, with pairwise different
\* values, or none
FullCounters == [k \in CounterKeys |-> CHOOSE i \in DOMAIN CounterOf : CounterOf[i][2] = k]
CounterSamples == [online |-> FullCounters, offline |-> EmptyDict]

\* worker entries over the given names: an online worker carries the counters
\* samples.online, an offline worker samples.offline; one entry lacks `status`
\* and one lacks `hostname`, both with all seven counters
WorkerEntries(names, samples) ==
    {Merge([hostname |-> w, status |-> TRUE], samples.online) : w \in names}
    \cup {Merge([hostname |-> w, status |-> FALSE], samples.offline) : w \in names}
    \cup {Merge([hostname |-> "w1"], FullCounters)}
    \cup {Merge([status |-> TRUE], FullCounters)}

WorkerPayloads(names, samples, lens) ==
    {[data |-> s] : s \in SeqsOfLen(WorkerEntries(names, samples), lens)} \cup {EmptyDict}

(* ---------------------------- publish steps ---------------------------- *)
\* a lookup of the top-level key without a default: absent, the iteration faults
\* as it does on an entry without any key
EntriesOfRequired(k, data) ==
    IF k = "queue"
    THEN IF "active_queues" \in DOMAIN data THEN data["active_queues"] ELSE <<[x \in {} |-> 0]>>
    ELSE IF "data" \in DOMAIN data THEN data["data"] ELSE <<[x \in {} |-> 0]>>

\* the list a convert_data_to_prometheus iterates: data.get(key, [])
EntriesOf(k, data) ==
    IF k = "queue" THEN DictGet(data, "active_queues", <<>>) ELSE DictGet(data, "data", <<>>)

\* QueueMonitorThread.convert_data_to_prometheus, one iteration: KeyError?
QueueEntryRaises(q_info) == "name" \notin DOMAIN q_info \/ "messages" \notin DOMAIN q_info

\* labels(flower=self.flower_host, queue=q_info['name'])
QueueKey(host, q_info) == <<host, q_info["name"]>>

\* TASKS_QUEUE after the next call of line 80.  q_info['name'] is evaluated
\* first, then labels(...), which creates the child at 0 when it is new, then
\* q_info['messages'], then set(...)
QueueEntryGauge(g, host, q_info) ==
    IF "name" \notin DOMAIN q_info THEN g
    ELSE IF QueueKey(host, q_info) \notin DOMAIN g THEN Labels(g, QueueKey(host, q_info))
    ELSE IF "messages" \notin DOMAIN q_info THEN g
    ELSE GaugeSet(g, QueueKey(host, q_info), q_info["messages"])

\* the next call of line 80 is the set()
QueueEntrySets(g, host, q_info) ==
    IF ~QueueEntryRaises(q_info) /\ QueueKey(host, q_info) \in DOMAIN g THEN 1 ELSE 0

\* WorkerMonitorThread.convert_data_to_prometheus, one iteration: KeyError?
WorkerEntryRaises(w_info) == "hostname" \notin DOMAIN w_info \/ "status" \notin DOMAIN w_info

\* labels(**common, status=...) of the n-th of lines 102-109
CounterKey(host, w_info, n) == <<host, w_info["hostname"], CounterOf[n][1]>>

\* a default of 1 for a counter the entry lacks
CounterValueDefaultOne(w_info, n) == DictGet(w_info, CounterOf[n][2], 1)

\* w_info.get(key, 0) of the n-th of lines 102-109
CounterValue(w_info, n) == DictGet(w_info, CounterOf[n][2], 0)

\* a set that zeroes the other series of the family first
CounterGaugeFresh(g, host, w_info, n) ==
    IF CounterKey(host, w_info, n) \notin DOMAIN g THEN Labels(g, CounterKey(host, w_info, n))
    ELSE GaugeSet([k \in DOMAIN g |-> 0], CounterKey(host, w_info, n), CounterValue(w_info, n))

\* TASKS_WORKER after the next call of the n-th of lines 102-109: labels(...),
\* which creates the child at 0 when it is new, or else set(...)
CounterGauge(g, host, w_info, n) ==
    IF CounterKey(host, w_info, n) \notin DOMAIN g THEN Labels(g, CounterKey(host, w_info, n))
    ELSE GaugeSet(g, CounterKey(host, w_info, n), CounterValue(w_info, n))

\* if w_info['status']: online += 1 else: offline += 1
OnlineInc(w_info) == IF w_info["status"] THEN 1 ELSE 0
\* `offline += 1` outside the else branch
OfflineIncAlways(w_info) == 1
OfflineInc(w_info) == IF w_info["status"] THEN 0 ELSE 1

\* a payload whose entries all carry their required keys
ValidPayload(k, data) ==
    \A i \in DOMAIN EntriesOf(k, data) :
        IF k = "queue" THEN ~QueueEntryRaises(EntriesOf(k, data)[i])
        ELSE ~WorkerEntryRaises(EntriesOf(k, data)[i])

(* ---------------------------- state ------------------------------------ *)
VARIABLES
    kind,          \* class of each poller object: QueueMonitorThread / WorkerMonitorThread
    flower_host,   \* self.flower_host
    pc,            \* position of each poller: new, reset, setup2, reset2, ready, get,
                   \* wait, convert, set_online, set_offline, sleep, dead
    todo,          \* the collected samples the reset loop has still to set to 0
    resp,          \* <<data.json()>> of the cycle's 200 response, <<>> when none
    idx,           \* index of the next entry of the convert loop
    sub,           \* how many of lines 102-109 are done for that entry
    online,        \* local `online` of WorkerMonitorThread.convert_data_to_prometheus
    offline,       \* local `offline`
    delay,         \* argument of the time.sleep the poller is in (0: not sleeping)
    outcome,       \* how the current cycle ended: none, connerr, badstatus, ok
    status_code,   \* data.status_code of the cycle's response (0: no response)
    nsets,         \* history: number of Gauge.set calls of the current cycle
    decoded,       \* history: data.json() was called in the current cycle
    faulted,       \* history: an exception escaped get_metrics
    known,         \* history: the series the poller's collect() calls returned,
                   \* kept until its first 200 response
    fails,         \* history: failed cycles since the last 200 response, saturating at MaxFails
    stable,        \* environment: the endpoint now always answers 200 with a valid payload
    children,      \* the label tuples of each family in creation order (Gauge._metrics)
    TASKS_QUEUE,   \* celery_tasks_by_queue: <<flower, queue>> -> value
    WORKERS,       \* celery_workers: <<flower, status>> -> value
    TASKS_WORKER   \* celery_tasks_by_worker: <<flower, worker, status>> -> value

local == <<pc, todo, resp, idx, sub, online, offline, delay, outcome, status_code, nsets, decoded,
           faulted, known, fails>>
gauges == <<TASKS_QUEUE, WORKERS, TASKS_WORKER>>
vars == <<kind, flower_host, local, stable, children, gauges>>

\* the poller objects the process creates
Created == {p \in Pollers : kind[p] # "none"}

\* A process with a single poller is explored with the full response universe,
\* a process with two pollers with lists of SharedLengths entries over one
\* queue name with one value, and one worker name: online with one counter,
\* offline with none.
Alone == Cardinality(Created) = 1

PayloadsOf(k) ==
    IF k = "queue"
    THEN IF Alone THEN QueuePayloads(QueueNames, 0..MaxMsg, 0..MaxLen)
         ELSE QueuePayloads({"qa"}, {MaxMsg}, SharedLengths)
    ELSE IF Alone THEN WorkerPayloads(WorkerNames, CounterSamples, 0..MaxLen)
         ELSE {[data |-> s] : s \in SeqsOfLen({[hostname |-> "w1", status |-> TRUE, active |-> 7],
                                                [hostname |-> "w1", status |-> FALSE]},
                                               SharedLengths)} \cup {EmptyDict}

\* requests.Response.json(): a body is JSON text of a payload, or no JSON at all
Bodies(k) == {[json |-> FALSE]} \cup {[json |-> TRUE, value |-> d] : d \in PayloadsOf(k)}

\* The process starts with the three families registered and no series.  The
\* processes explored: one poller; two QueuePollers of one host or of two; a
\* QueuePoller and a WorkerPoller of one host or of two; two WorkerPollers of
\* one host.  st says which endpoints are stable from the start.
InitWith(st) ==
    /\ kind \in [Pollers -> Kinds \cup {"none"}]
    /\ kind[1] # "none"
    /\ \A p \in Pollers : kind[p] \notin {"none", kind[1]} => kind[1] = "queue"
    /\ flower_host \in [Pollers -> Hosts]
    /\ \A p \in Pollers : (p = 1 \/ kind[p] = "none") => flower_host[p] = "h1"
    /\ (\A p \in Pollers : kind[p] = "worker") => \A p \in Pollers : flower_host[p] = "h1"
    /\ pc = [p \in Pollers |-> "new"]
    /\ todo = [p \in Pollers |-> <<>>]
    /\ resp = [p \in Pollers |-> <<>>]
    /\ idx = [p \in Pollers |-> 0]
    /\ sub = [p \in Pollers |-> 0]
    /\ online = [p \in Pollers |-> 0]
    /\ offline = [p \in Pollers |-> 0]
    /\ delay = [p \in Pollers |-> 0]
    /\ outcome = [p \in Pollers |-> "none"]
    /\ status_code = [p \in Pollers |-> 0]
    /\ nsets = [p \in Pollers |-> 0]
    /\ decoded = [p \in Pollers |-> FALSE]
    /\ faulted = [p \in Pollers |-> FALSE]
    /\ fails = [p \in Pollers |-> 0]
    /\ known = [p \in Pollers |-> {}]
    /\ stable = st
    /\ children = [f \in {"celery_tasks_by_queue", "celery_workers", "celery_tasks_by_worker"} |-> <<>>]
    /\ TASKS_QUEUE = EmptyDict
    /\ WORKERS = EmptyDict
    /\ TASKS_WORKER = EmptyDict

\* endpoints that may fail in every way
Init == InitWith([p \in Pollers |-> FALSE])

(* ---------------------------- helpers of the loop ----------------------- *)
Queue(p) == kind[p] = "queue"
Worker(p) == kind[p] = "worker"

\* self.endpoint
endpoint(p) == <<flower_host[p], EndpointSuffix(kind[p])>>

\* an except clause around the publish step that logs and sleeps
FaultPcCaught == "sleep"

\* where an exception that escapes get_metrics leaves the thread: run() returns
FaultPc == "dead"

\* every class closing its loop with the two celery_workers sets
AfterLoopWorkers(k) == "set_online"

\* where the convert loop goes when the entries are exhausted
AfterLoop(k) == IF k = "queue" THEN "sleep" ELSE "set_online"

Entries(p) == EntriesOf(kind[p], resp[p][1])

Bump(n) == IF n < MaxFails THEN n + 1 ELSE n

\* the locals of convert_data_to_prometheus are gone
DropLocals(p) ==
    /\ idx' = [idx EXCEPT ![p] = 0]
    /\ sub' = [sub EXCEPT ![p] = 0]
    /\ online' = [online EXCEPT ![p] = 0]
    /\ offline' = [offline EXCEPT ![p] = 0]

\* a sleep that grows with the number of failed cycles (backoff)
SleepBackoff(p, d, how) ==
    /\ delay' = [delay EXCEPT ![p] = d * (fails[p] + 1)]
    /\ outcome' = [outcome EXCEPT ![p] = how]

\* time.sleep(d) at the end of a cycle that ended as `how`
Sleep(p, d, how) ==
    /\ delay' = [delay EXCEPT ![p] = d]
    /\ outcome' = [outcome EXCEPT ![p] = how]

\* an exception propagates out of get_metrics and run
Raise(p) ==
    /\ pc' = [pc EXCEPT ![p] = FaultPc]
    /\ faulted' = [faulted EXCEPT ![p] = TRUE]
    /\ resp' = [resp EXCEPT ![p] = <<>>]
    /\ DropLocals(p)
    /\ UNCHANGED <<delay, outcome>>

\* labels() has to create the child of the label tuple
IsNew(g, key) == key \notin DOMAIN g

\* the child is appended to the family's children
Register(family, key) == children' = [children EXCEPT ![family] = Append(@, key)]

\* the collected samples, each tagged with its family's name
Tagged(family, samples) == {<<family, samples[i]>> : i \in DOMAIN samples}

\* the locals of a poller outside its reset loops
loop == <<resp, idx, sub, online, offline, delay, outcome, status_code, nsets, decoded, faulted, fails>>

(* ---------------------------- MonitorThread.__init__ ------------------- *)
\* QueueMonitorThread.setup_metrics: TASKS_QUEUE.collect()
SetupQueue(p) ==
    /\ pc[p] = "new" /\ Queue(p)
    /\ LET samples == Collect(children["celery_tasks_by_queue"]) IN
         /\ todo' = [todo EXCEPT ![p] = samples]
         /\ known' = [known EXCEPT ![p] = Tagged("celery_tasks_by_queue", samples)]
         /\ pc' = [pc EXCEPT ![p] = IF samples = <<>> THEN "ready" ELSE "reset"]
    /\ UNCHANGED <<kind, flower_host, loop, stable, children, gauges>>

\* QueueMonitorThread.setup_metrics: TASKS_QUEUE.labels(**sample[1]).set(0)
ResetQueue(p) ==
    /\ pc[p] = "reset" /\ Queue(p)
    /\ TASKS_QUEUE' = ResetOne(TASKS_QUEUE, Head(todo[p]))
    /\ todo' = [todo EXCEPT ![p] = Tail(@)]
    /\ pc' = [pc EXCEPT ![p] = IF Tail(todo[p]) = <<>> THEN "ready" ELSE "reset"]
    /\ UNCHANGED <<kind, flower_host, loop, known, stable, children, WORKERS, TASKS_WORKER>>

\* WorkerMonitorThread.setup_metrics: WORKERS.collect()
SetupWorkers(p) ==
    /\ pc[p] = "new" /\ Worker(p)
    /\ LET samples == Collect(children["celery_workers"]) IN
         /\ todo' = [todo EXCEPT ![p] = samples]
         /\ known' = [known EXCEPT ![p] = Tagged("celery_workers", samples)]
         /\ pc' = [pc EXCEPT ![p] = IF samples = <<>> THEN "setup2" ELSE "reset"]
    /\ UNCHANGED <<kind, flower_host, loop, stable, children, gauges>>

\* WorkerMonitorThread.setup_metrics: WORKERS.labels(**sample[1]).set(0)
ResetWorkers(p) ==
    /\ pc[p] = "reset" /\ Worker(p)
    /\ WORKERS' = ResetOne(WORKERS, Head(todo[p]))
    /\ todo' = [todo EXCEPT ![p] = Tail(@)]
    /\ pc' = [pc EXCEPT ![p] = IF Tail(todo[p]) = <<>> THEN "setup2" ELSE "reset"]
    /\ UNCHANGED <<kind, flower_host, loop, known, stable, children, TASKS_QUEUE, TASKS_WORKER>>

\* WorkerMonitorThread.setup_metrics: TASKS_WORKER.collect()
SetupTasksWorker(p) ==
    /\ pc[p] = "setup2"
    /\ LET samples == Collect(children["celery_tasks_by_worker"]) IN
         /\ todo' = [todo EXCEPT ![p] = samples]
         /\ known' = [known EXCEPT ![p] = @ \cup Tagged("celery_tasks_by_worker", samples)]
         /\ pc' = [pc EXCEPT ![p] = IF samples = <<>> THEN "ready" ELSE "reset2"]
    /\ UNCHANGED <<kind, flower_host, loop, stable, children, gauges>>

\* WorkerMonitorThread.setup_metrics: TASKS_WORKER.labels(**sample[1]).set(0)
ResetTasksWorker(p) ==
    /\ pc[p] = "reset2"
    /\ TASKS_WORKER' = ResetOne(TASKS_WORKER, Head(todo[p]))
    /\ todo' = [todo EXCEPT ![p] = Tail(@)]
    /\ pc' = [pc EXCEPT ![p] = IF Tail(todo[p]) = <<>> THEN "ready" ELSE "reset2"]
    /\ UNCHANGED <<kind, flower_host, loop, known, stable, children, TASKS_QUEUE, WORKERS>>

\* a start that refuses a host string another started poller of the class uses
StartUnique(p) ==
    /\ pc[p] = "ready"
    /\ \A q \in Pollers \ {p} :
          (kind[q] = kind[p] /\ flower_host[q] = flower_host[p])
              => pc[q] \in {"new", "reset", "setup2", "reset2", "ready"}
    /\ pc' = [pc EXCEPT ![p] = "get"]
    /\ UNCHANGED <<kind, flower_host, todo, loop, known, stable, children, gauges>>

\* Thread.start(): run() enters get_metrics
Start(p) ==
    /\ pc[p] = "ready"
    /\ pc' = [pc EXCEPT ![p] = "get"]
    /\ UNCHANGED <<kind, flower_host, todo, loop, known, stable, children, gauges>>

(* ---------------------------- MonitorThread.get_metrics ---------------- *)
\* requests issued through one shared connection: no GET while another is pending
GetSerialized(p) ==
    /\ pc[p] = "get"
    /\ \A q \in Pollers \ {p} : pc[q] # "wait"
    /\ pc' = [pc EXCEPT ![p] = "wait"]
    /\ UNCHANGED <<kind, flower_host, todo, loop, known, stable, children, gauges>>

\* data = requests.get(self.endpoint) is issued
Get(p) ==
    /\ pc[p] = "get"
    /\ pc' = [pc EXCEPT ![p] = "wait"]
    /\ UNCHANGED <<kind, flower_host, todo, loop, known, stable, children, gauges>>

\* requests.get raises ConnectionError
ConnError(p) ==
    /\ pc[p] = "wait" /\ ~stable[p]
    /\ pc' = [pc EXCEPT ![p] = "sleep"]
    /\ Sleep(p, ConnErrorDelay, "connerr")
    /\ fails' = [fails EXCEPT ![p] = Bump(@)]
    /\ UNCHANGED <<kind, flower_host, todo, known, resp, idx, sub, online, offline, status_code, nsets,
                   decoded, faulted, stable, children, gauges>>

\* requests.get raises an exception that is no ConnectionError (a broken
\* chunked body, an undecodable body, too many redirects, an invalid URL):
\* line 43 does not catch it
RequestError(p) ==
    /\ pc[p] = "wait" /\ ~stable[p]
    /\ Raise(p)
    /\ UNCHANGED <<kind, flower_host, todo, known, status_code, nsets, decoded, fails, stable,
                   children, gauges>>

\* data.status_code != 200
BadStatus(p) ==
    /\ pc[p] = "wait" /\ ~stable[p]
    /\ \E code \in StatusCodes :
         /\ ~StatusOk(code)
         /\ status_code' = [status_code EXCEPT ![p] = code]
         /\ pc' = [pc EXCEPT ![p] = "sleep"]
         /\ Sleep(p, BadStatusDelay, "badstatus")
    /\ fails' = [fails EXCEPT ![p] = Bump(@)]
    /\ UNCHANGED <<kind, flower_host, todo, known, resp, idx, sub, online, offline, nsets,
                   decoded, faulted, stable, children, gauges>>

\* status 200, data.json() raises
BadJson(p) ==
    /\ pc[p] = "wait" /\ ~stable[p]
    /\ \E code \in StatusCodes, body \in Bodies(kind[p]) :
         /\ StatusOk(code)
         /\ status_code' = [status_code EXCEPT ![p] = code]
         /\ ~body.json
         /\ decoded' = [decoded EXCEPT ![p] = TRUE]
         /\ Raise(p)
    /\ fails' = [fails EXCEPT ![p] = 0]
    /\ known' = [known EXCEPT ![p] = {}]
    /\ UNCHANGED <<kind, flower_host, todo, nsets, stable, children, gauges>>

\* status 200, data.json() returns the payload; convert_data_to_prometheus starts
Ok(p) ==
    /\ pc[p] = "wait"
    /\ \E code \in StatusCodes, body \in Bodies(kind[p]) :
         /\ StatusOk(code)
         /\ status_code' = [status_code EXCEPT ![p] = code]
         /\ body.json
         /\ stable[p] => ValidPayload(kind[p], body.value)
         /\ decoded' = [decoded EXCEPT ![p] = TRUE]
         /\ resp' = [resp EXCEPT ![p] = <<body.value>>]
         /\ IF EntriesOf(kind[p], body.value) # <<>>
            THEN /\ pc' = [pc EXCEPT ![p] = "convert"]
                 /\ idx' = [idx EXCEPT ![p] = 1]
                 /\ UNCHANGED <<delay, outcome>>
            ELSE /\ pc' = [pc EXCEPT ![p] = AfterLoop(kind[p])]
                 /\ idx' = idx
                 /\ IF Queue(p) THEN Sleep(p, CycleDelay, "ok")
                    ELSE UNCHANGED <<delay, outcome>>
    /\ fails' = [fails EXCEPT ![p] = 0]
    /\ known' = [known EXCEPT ![p] = {}]
    /\ UNCHANGED <<kind, flower_host, todo, sub, online, offline, nsets, faulted, stable, children, gauges>>

\* QueueMonitorThread.convert_data_to_prometheus: the next call of line 80 for
\* the entry the loop is at
ConvertQueue(p) ==
    /\ pc[p] = "convert" /\ Queue(p)
    /\ LET q_info == Entries(p)[idx[p]]
           h == flower_host[p]
           creates == "name" \in DOMAIN q_info /\ IsNew(TASKS_QUEUE, QueueKey(h, q_info))
       IN
         /\ TASKS_QUEUE' = QueueEntryGauge(TASKS_QUEUE, h, q_info)
         /\ nsets' = [nsets EXCEPT ![p] = @ + QueueEntrySets(TASKS_QUEUE, h, q_info)]
         /\ IF creates
            THEN /\ Register("celery_tasks_by_queue", QueueKey(h, q_info))
                 /\ UNCHANGED <<pc, resp, idx, sub, online, offline, faulted, delay, outcome>>
            ELSE /\ UNCHANGED children
                 /\ IF QueueEntryRaises(q_info) THEN Raise(p)
                    ELSE /\ UNCHANGED <<resp, sub, online, offline, faulted>>
                         /\ IF idx[p] < Len(Entries(p))
                            THEN /\ idx' = [idx EXCEPT ![p] = @ + 1]
                                 /\ UNCHANGED <<pc, delay, outcome>>
                            ELSE /\ idx' = [idx EXCEPT ![p] = 0]
                                 /\ pc' = [pc EXCEPT ![p] = "sleep"]
                                 /\ Sleep(p, CycleDelay, "ok")
    /\ UNCHANGED <<kind, flower_host, todo, known, status_code, decoded, fails, stable, WORKERS, TASKS_WORKER>>

\* the next call of lines 102-109 for an entry with a hostname, and after the
\* set of line 109 the test of w_info['status'] (lines 111-114)
CounterStep(p, w_info) ==
    LET h == flower_host[p]
        n == sub[p] + 1
    IN
    /\ TASKS_WORKER' = CounterGauge(TASKS_WORKER, h, w_info, n)
    /\ IF IsNew(TASKS_WORKER, CounterKey(h, w_info, n))
       THEN /\ Register("celery_tasks_by_worker", CounterKey(h, w_info, n))
            /\ UNCHANGED <<pc, resp, idx, sub, online, offline, faulted, delay, outcome, nsets>>
       ELSE /\ UNCHANGED children
            /\ nsets' = [nsets EXCEPT ![p] = @ + 1]
            /\ IF n < Len(CounterOf)
               THEN /\ sub' = [sub EXCEPT ![p] = n]
                    /\ UNCHANGED <<pc, resp, idx, online, offline, faulted, delay, outcome>>
               ELSE IF "status" \notin DOMAIN w_info THEN Raise(p)
               ELSE /\ sub' = [sub EXCEPT ![p] = 0]
                    /\ online' = [online EXCEPT ![p] = @ + OnlineInc(w_info)]
                    /\ offline' = [offline EXCEPT ![p] = @ + OfflineInc(w_info)]
                    /\ UNCHANGED <<resp, faulted, delay, outcome>>
                    /\ IF idx[p] < Len(Entries(p))
                       THEN /\ idx' = [idx EXCEPT ![p] = @ + 1]
                            /\ pc' = pc
                       ELSE /\ idx' = [idx EXCEPT ![p] = 0]
                            /\ pc' = [pc EXCEPT ![p] = "set_online"]

\* an iteration that reads w_info['status'] before its seven sets, so that an
\* entry lacking a required key sets nothing
ConvertWorkerChecked(p) ==
    /\ pc[p] = "convert" /\ Worker(p)
    /\ LET w_info == Entries(p)[idx[p]] IN
         IF WorkerEntryRaises(w_info)
         THEN Raise(p) /\ UNCHANGED <<TASKS_WORKER, children, nsets>>
         ELSE CounterStep(p, w_info)
    /\ UNCHANGED <<kind, flower_host, todo, known, status_code, decoded, fails, stable, TASKS_QUEUE, WORKERS>>

\* WorkerMonitorThread.convert_data_to_prometheus: w_info['hostname'] of line
\* 100 when the entry is entered, then the next call of lines 102-109
ConvertWorker(p) ==
    /\ pc[p] = "convert" /\ Worker(p)
    /\ LET w_info == Entries(p)[idx[p]] IN
         IF "hostname" \notin DOMAIN w_info
         THEN Raise(p) /\ UNCHANGED <<TASKS_WORKER, children, nsets>>
         ELSE CounterStep(p, w_info)
    /\ UNCHANGED <<kind, flower_host, todo, known, status_code, decoded, fails, stable, TASKS_QUEUE, WORKERS>>

\* a publish that sets the online and the offline series in one step
SetOnlineAtomic(p) ==
    /\ pc[p] = "set_online"
    /\ LET on == <<flower_host[p], "online">>
           off == <<flower_host[p], "offline">>
       IN IF IsNew(WORKERS, on) \/ IsNew(WORKERS, off)
          THEN /\ WORKERS' = Labels(WORKERS, IF IsNew(WORKERS, on) THEN on ELSE off)
               /\ Register("celery_workers", IF IsNew(WORKERS, on) THEN on ELSE off)
               /\ UNCHANGED <<pc, nsets>>
          ELSE /\ WORKERS' = GaugeSet(GaugeSet(WORKERS, on, online[p]), off, offline[p])
               /\ nsets' = [nsets EXCEPT ![p] = @ + 1]
               /\ pc' = [pc EXCEPT ![p] = "set_offline"]
               /\ UNCHANGED children
    /\ UNCHANGED <<kind, flower_host, todo, known, resp, idx, sub, online, offline, delay, outcome,
                   status_code, decoded, faulted, fails, stable, TASKS_QUEUE, TASKS_WORKER>>

\* line 116: WORKERS.labels(flower=self.flower_host, status='online'), which
\* creates the child at 0 when it is new, or else .set(online)
SetOnline(p) ==
    /\ pc[p] = "set_online"
    /\ LET key == <<flower_host[p], "online">> IN
         IF IsNew(WORKERS, key)
         THEN /\ WORKERS' = Labels(WORKERS, key)
              /\ Register("celery_workers", key)
              /\ UNCHANGED <<pc, nsets>>
         ELSE /\ WORKERS' = GaugeSet(WORKERS, key, online[p])
              /\ nsets' = [nsets EXCEPT ![p] = @ + 1]
              /\ pc' = [pc EXCEPT ![p] = "set_offline"]
              /\ UNCHANGED children
    /\ UNCHANGED <<kind, flower_host, todo, known, resp, idx, sub, online, offline, delay, outcome,
                   status_code, decoded, faulted, fails, stable, TASKS_QUEUE, TASKS_WORKER>>

\* line 117: WORKERS.labels(flower=self.flower_host, status='offline'), which
\* creates the child at 0 when it is new, or else .set(offline); time.sleep(1)
SetOffline(p) ==
    /\ pc[p] = "set_offline"
    /\ LET key == <<flower_host[p], "offline">> IN
         IF IsNew(WORKERS, key)
         THEN /\ WORKERS' = Labels(WORKERS, key)
              /\ Register("celery_workers", key)
              /\ UNCHANGED <<pc, nsets, idx, sub, online, offline, delay, outcome>>
         ELSE /\ WORKERS' = GaugeSet(WORKERS, key, offline[p])
              /\ nsets' = [nsets EXCEPT ![p] = @ + 1]
              /\ pc' = [pc EXCEPT ![p] = "sleep"]
              /\ DropLocals(p)
              /\ Sleep(p, CycleDelay, "ok")
              /\ UNCHANGED children
    /\ UNCHANGED <<kind, flower_host, todo, known, resp, status_code, decoded, faulted, fails, stable,
                   TASKS_QUEUE, TASKS_WORKER>>

\* time.sleep returns; `continue` or the end of the body leads to the loop top
Wake(p) ==
    /\ pc[p] = "sleep"
    /\ pc' = [pc EXCEPT ![p] = "get"]
    /\ resp' = [resp EXCEPT ![p] = <<>>]
    /\ delay' = [delay EXCEPT ![p] = 0]
    /\ outcome' = [outcome EXCEPT ![p] = "none"]
    /\ status_code' = [status_code EXCEPT ![p] = 0]
    /\ nsets' = [nsets EXCEPT ![p] = 0]
    /\ decoded' = [decoded EXCEPT ![p] = FALSE]
    /\ UNCHANGED <<kind, flower_host, todo, known, idx, sub, online, offline, faulted, fails, stable,
                   children, gauges>>

\* environment: from now on the endpoint of p answers 200 with a valid payload
Stabilize(p) ==
    /\ ~stable[p]
    /\ stable' = [stable EXCEPT ![p] = TRUE]
    /\ UNCHANGED <<kind, flower_host, local, children, gauges>>

\* the steps of the thread of p itself
ThreadStep(p) ==
    \/ Get(p) \/ ConvertQueue(p) \/ ConvertWorker(p)
    \/ SetOnline(p) \/ SetOffline(p) \/ Wake(p)

\* the answers of the endpoint of p
Answer(p) == ConnError(p) \/ RequestError(p) \/ BadStatus(p) \/ BadJson(p) \/ Ok(p)

Next ==
    \E p \in Pollers :
        \/ SetupQueue(p) \/ ResetQueue(p) \/ SetupWorkers(p) \/ ResetWorkers(p)
        \/ SetupTasksWorker(p) \/ ResetTasksWorker(p) \/ Start(p)
        \/ Get(p) \/ ConnError(p) \/ RequestError(p) \/ BadStatus(p) \/ BadJson(p) \/ Ok(p)
        \/ ConvertQueue(p) \/ ConvertWorker(p) \/ SetOnline(p) \/ SetOffline(p)
        \/ Wake(p)

Spec == Init /\ [][Next]_vars

\* Next, and endpoints that may become stable
NextLive == Next \/ \E p \in Pollers : Stabilize(p)

\* Every thread is scheduled again and every time.sleep returns; an endpoint
\* that has become stable answers every GET.
Fairness ==
    \A p \in Pollers : WF_vars(ThreadStep(p)) /\ WF_vars(stable[p] /\ Answer(p))

\* the deployments of two pollers on one configured host: its QueuePoller and
\* its WorkerPoller, or two pollers of one class whose endpoint is stable from
\* the start
InitLive ==
    \E b \in BOOLEAN :
        /\ InitWith([p \in Pollers |-> b])
        /\ \A p \in Pollers : kind[p] # "none" /\ flower_host[p] = "h1"
        /\ b <=> (kind[1] = kind[2])

LiveSpec == InitLive /\ [][NextLive]_vars /\ Fairness

(* ---------------------------- properties -------------------------------- *)
\* some series is registered
SomeSeries == DOMAIN TASKS_QUEUE # {} \/ DOMAIN WORKERS # {} \/ DOMAIN TASKS_WORKER # {}

ConnErrorCycle(p) ==
    outcome[p] = "connerr" =>
        /\ pc[p] = "sleep" /\ delay[p] = 5
        /\ nsets[p] = 0 /\ ~decoded[p] /\ ~faulted[p]

ConnErrorStep(p) ==
    /\ (pc[p] = "wait" /\ outcome'[p] = "connerr") => UNCHANGED <<children, gauges>>
    /\ (outcome[p] = "connerr" /\ pc'[p] # pc[p]) => pc'[p] = "get"
    /\ (pc[p] = "get" /\ pc'[p] # pc[p]) => pc'[p] = "wait"

\* C1: a cycle whose GET raises a connection error writes no gauge, decodes
\* nothing and does not end the thread; the poller sleeps 5 seconds, returns to
\* the loop top and issues a new GET, on the first request and on later ones.
C1_ConnectionErrorRetried ==
    /\ [](\A p \in Pollers : ConnErrorCycle(p))
    /\ [][\A p \in Pollers : ConnErrorStep(p)]_vars

\* a connection error on a request that follows failed cycles and a publish
C1_Witness ==
    \E p \in Pollers : outcome[p] = "connerr" /\ fails[p] = MaxFails /\ SomeSeries

BadStatusCycle(p) ==
    /\ status_code[p] \notin {0, 200} =>
         /\ pc[p] = "sleep" /\ delay[p] = 1 /\ outcome[p] = "badstatus"
         /\ nsets[p] = 0 /\ ~decoded[p] /\ ~faulted[p]
    /\ (nsets[p] > 0 \/ decoded[p]) => status_code[p] = 200

BadStatusStep(p) ==
    /\ (pc[p] = "wait" /\ status_code'[p] \notin {0, 200}) => UNCHANGED <<children, gauges>>
    /\ (outcome[p] = "badstatus" /\ pc'[p] # pc[p]) => pc'[p] = "get"

\* C2: a cycle whose response status is not 200 never decodes the body and
\* writes no gauge; the poller sleeps 1 second and returns to the loop top.
\* Bodies are decoded and gauges written only in cycles whose status is 200.
C2_BadStatusRetried ==
    /\ [](\A p \in Pollers : BadStatusCycle(p))
    /\ [][\A p \in Pollers : BadStatusStep(p)]_vars

\* a 204 answer after a publish
C2_Witness ==
    \E p \in Pollers : status_code[p] = 204 /\ pc[p] = "sleep" /\ SomeSeries

LoopPcs == {"get", "wait", "convert", "set_online", "set_offline", "sleep"}

\* the poller is inside MonitorThread.__init__
Initializing(p) == pc[p] \in {"new", "reset", "setup2", "reset2"}

Started(p) == ~Initializing(p) /\ pc[p] # "ready"

\* C3: once started, a poller never leaves its fetch-publish-sleep loop,
\* whatever a single cycle brings (stated as the claim states it; the code
\* lets a payload fault of a 200 response end the thread).
C3_NeverLeavesLoop == \A p \in Pollers : Started(p) => pc[p] \in LoopPcs

\* requests.get of the cycle raised an exception that line 43 does not catch
RequestFault(p) == pc[p] = "dead" /\ ~decoded[p]

\* a started poller ended by an exception of its second or a later GET, after
\* failed cycles and with its published series left in the registry
C3_RequestFaultReached ==
    \E p \in Pollers : RequestFault(p) /\ faulted[p] /\ fails[p] > 0 /\ status_code[p] = 0 /\ SomeSeries

FixedDelay(p) ==
    /\ (fails[p] > 0 /\ pc[p] \notin {"get", "wait"} /\ ~RequestFault(p)) =>
          /\ pc[p] = "sleep" /\ ~faulted[p]
          /\ outcome[p] \in {"connerr", "badstatus"}
          /\ delay[p] = IF outcome[p] = "connerr" THEN 5 ELSE 1
    /\ outcome[p] \in {"connerr", "badstatus"} =>
          /\ pc[p] = "sleep" /\ ~faulted[p] /\ fails[p] > 0
          /\ delay[p] = IF outcome[p] = "connerr" THEN 5 ELSE 1

Published(p) == pc[p] = "sleep" /\ outcome[p] = "ok" /\ status_code[p] = 200

\* C4: after any number of consecutive connection errors and non-200 answers
\* the poller is still in its loop and sleeps 5 s after a connection error and
\* 1 s after a bad status, whatever the number (a later GET that raises
\* another exception is no such cycle); once the endpoint always
\* answers 200 with a valid payload, the poller (sleeping after a failed
\* cycle, at the loop top or waiting for the answer) completes a publishing
\* cycle.
C4_UnboundedFixedRetry ==
    /\ [](\A p \in Pollers : FixedDelay(p))
    /\ \A p \in Pollers : (stable[p] /\ pc[p] \in {"sleep", "get", "wait"}) ~> Published(p)

\* the payload of an endpoint that has become stable was published
C4_Witness ==
    \E p \in Pollers : stable[p] /\ Published(p) /\ nsets[p] > 0

\* the value of a tagged series in the given families
ValueIn(tq, w, tw, s) ==
    CASE s[1] = "celery_tasks_by_queue" -> tq[s[2]]
      [] s[1] = "celery_workers" -> w[s[2]]
      [] s[1] = "celery_tasks_by_worker" -> tw[s[2]]

Value(s) == ValueIn(TASKS_QUEUE, WORKERS, TASKS_WORKER, s)

AllSeries ==
    Series("celery_tasks_by_queue", TASKS_QUEUE) \cup Series("celery_workers", WORKERS)
    \cup Series("celery_tasks_by_worker", TASKS_WORKER)

\* the series registered after the step that were not registered before it
NewSeries == AllSeries' \ AllSeries

\* the series of the next labels() call of the publish step of p: that of the
\* entry and statement its convert loop is at, or a celery_workers series of
\* its host; none outside the publish step
Targets(p) ==
    LET h == flower_host[p] IN
    IF pc[p] = "convert" /\ Queue(p) /\ "name" \in DOMAIN Entries(p)[idx[p]]
    THEN {<<"celery_tasks_by_queue", QueueKey(h, Entries(p)[idx[p]])>>}
    ELSE IF pc[p] = "convert" /\ Worker(p) /\ "hostname" \in DOMAIN Entries(p)[idx[p]]
    THEN {<<"celery_tasks_by_worker", CounterKey(h, Entries(p)[idx[p]], sub[p] + 1)>>}
    ELSE IF pc[p] = "set_online" THEN {<<"celery_workers", <<h, "online">>>>}
    ELSE IF pc[p] = "set_offline" THEN {<<"celery_workers", <<h, "offline">>>>}
    ELSE {}

\* the poller moved: a collect, a reset, a set or any step of its loop
Stepped(p) ==
    <<pc[p], idx[p], sub[p], nsets[p], todo[p]>>' # <<pc[p], idx[p], sub[p], nsets[p], todo[p]>>

\* the step is a labels() of the publish step of p that creates its child,
\* which moves no poller
Registered(p) ==
    /\ NewSeries # {} /\ NewSeries \subseteq Targets(p)
    /\ \A q \in Pollers : ~Stepped(q)

\* the step is one of p
Acted(p) == Stepped(p) \/ Registered(p)

\* the entry the convert loop of p is at lacks a required key
LacksRequired(p) ==
    LET e == Entries(p)[idx[p]] IN
    IF Queue(p) THEN QueueEntryRaises(e) ELSE WorkerEntryRaises(e)

\* a WorkerPoller on an entry with a hostname goes through lines 102-109
\* before it reads w_info['status']
BeforeStatus(p) ==
    /\ Worker(p) /\ "hostname" \in DOMAIN Entries(p)[idx[p]]
    /\ sub[p] + 1 < Len(CounterOf)
    /\ pc'[p] = "convert" /\ idx'[p] = idx[p] /\ sub'[p] = sub[p] + 1

PayloadFaultStep(p) ==
    /\ (pc[p] = "convert" /\ LacksRequired(p) /\ Stepped(p)) => (pc'[p] = "dead" \/ BeforeStatus(p))
    /\ (pc[p] = "wait" /\ decoded'[p] /\ resp'[p] = <<>>) => pc'[p] = "dead"
    /\ pc[p] = "dead" => (pc'[p] = "dead" /\ nsets'[p] = nsets[p] /\ ~Acted(p))
    /\ (pc[p] # "dead" /\ pc'[p] = "dead") =>
           \A q \in Pollers \ {p} : pc'[q] = pc[q] /\ faulted'[q] = faulted[q]

\* C5: a 200 response whose body is no JSON, or whose entry lacks a required
\* key, ends the thread of the poller that received it: its cycle never
\* completes, the poller stays terminated, issues no GET and sets no gauge any
\* more, while every other poller stays where it is and can take its next step.
C5_PayloadFaultTerminates ==
    /\ [](\A p \in Pollers : faulted[p] => pc[p] = "dead")
    /\ [](\A p \in Pollers :
            (resp[p] # <<>> /\ ~ValidPayload(kind[p], resp[p][1])) => pc[p] = "convert")
    /\ [](\A p \in Pollers : pc[p] = "dead" => ~ENABLED (ThreadStep(p) \/ Answer(p)))
    /\ [](\A p, q \in Pollers :
            (pc[p] = "dead" /\ pc[q] \in LoopPcs) => ENABLED (ThreadStep(q) \/ Answer(q)))
    /\ [][\A p \in Pollers : PayloadFaultStep(p)]_vars

\* one poller terminated by a payload fault, another one with a completed publish
C5_Witness ==
    \E p, q \in Pollers : pc[p] = "dead" /\ faulted[p] /\ Published(q) /\ nsets[q] > 0

\* a WorkerPoller terminated by an entry without status after its seven sets
C5_WitnessStatus ==
    \E p \in Pollers : Worker(p) /\ pc[p] = "dead" /\ nsets[p] = Len(CounterOf)

\* no other poller object of the same class exists
NoRival(p) == \A q \in Pollers \ {p} : kind[q] # kind[p]

\* messages of the last entry named n
LastMessages(entries, n) ==
    entries[CHOOSE i \in DOMAIN entries :
              /\ entries[i]["name"] = n
              /\ \A j \in DOMAIN entries : entries[j]["name"] = n => j <= i]["messages"]

QueuePublished(p) ==
    LET entries == Entries(p) IN
    /\ nsets[p] = Len(entries)
    /\ \A i \in DOMAIN entries :
         /\ QueueKey(flower_host[p], entries[i]) \in DOMAIN TASKS_QUEUE
         /\ TASKS_QUEUE[QueueKey(flower_host[p], entries[i])]
              = LastMessages(entries, entries[i]["name"])

QueueFrame(p) ==
    /\ \A k \in DOMAIN TASKS_QUEUE :
        \/ k \in DOMAIN TASKS_QUEUE' /\ TASKS_QUEUE'[k] = TASKS_QUEUE[k]
        \/ pc[p] = "convert" /\ k = QueueKey(flower_host[p], Entries(p)[idx[p]])
    /\ \A k \in (DOMAIN TASKS_QUEUE') \ DOMAIN TASKS_QUEUE :
        pc[p] = "convert" /\ k = QueueKey(flower_host[p], Entries(p)[idx[p]])

\* C6: at the end of a successful cycle of the only QueuePoller of the process,
\* every entry's series celery_tasks_by_queue{flower=h, queue=name} holds the
\* messages of the last entry of that name, one set was issued per entry, and
\* no step changed or registered a series other than the one of the entry
\* being processed.
C6_QueuePublish ==
    /\ [](\A p \in Pollers : (Queue(p) /\ NoRival(p) /\ Published(p)) => QueuePublished(p))
    /\ [][\A p \in Pollers : (Queue(p) /\ NoRival(p)) => QueueFrame(p)]_vars

\* a published response that names qa twice with different messages, while the
\* series of qb, absent from the response, still holds an earlier value
C6_Witness ==
    \E p \in Pollers :
        /\ Queue(p) /\ NoRival(p) /\ Published(p)
        /\ Len(Entries(p)) = 2
        /\ Entries(p)[1]["name"] = "qa" /\ Entries(p)[2]["name"] = "qa"
        /\ Entries(p)[1]["messages"] # Entries(p)[2]["messages"]
        /\ <<flower_host[p], "qb">> \in DOMAIN TASKS_QUEUE
        /\ TASKS_QUEUE[<<flower_host[p], "qb">>] = MaxMsg

WorkersPublished(p) ==
    LET entries == Entries(p)
        on == Cardinality({i \in DOMAIN entries : entries[i]["status"]})
        off == Cardinality({i \in DOMAIN entries : ~entries[i]["status"]})
        h == flower_host[p]
    IN  /\ {<<h, "online">>, <<h, "offline">>} \subseteq DOMAIN WORKERS
        /\ WORKERS[<<h, "online">>] = on
        /\ WORKERS[<<h, "offline">>] = off
        /\ WORKERS[<<h, "online">>] + WORKERS[<<h, "offline">>] = Len(entries)

\* C7: at the end of a successful cycle of the only WorkerPoller of the process,
\* celery_workers{flower=h, status=online} is the number of entries of `data`
\* with a true status, {status=offline} the number with a false status, and the
\* two add up to the number of entries.
C7_WorkerCounts ==
    \A p \in Pollers : (Worker(p) /\ NoRival(p) /\ Published(p)) => WorkersPublished(p)

\* a published response with one online and one offline worker
C7_Witness ==
    \E p \in Pollers :
        /\ Worker(p) /\ NoRival(p) /\ Published(p)
        /\ Len(Entries(p)) = 2
        /\ Entries(p)[1]["status"] /\ ~Entries(p)[2]["status"]

\* the w_info key behind each status label of celery_tasks_by_worker
FieldOf(st) ==
    CASE st = "received" -> "task-received"
      [] st = "started" -> "task-started"
      [] st = "failed" -> "task-failed"
      [] st = "retried" -> "task-retried"
      [] st = "succeeded" -> "task-succeeded"
      [] st = "processed" -> "processed"
      [] st = "active" -> "active"

SevenStatuses == {"received", "started", "failed", "retried", "succeeded", "processed", "active"}

\* the last entry of the given hostname
LastOf(entries, w) ==
    entries[CHOOSE i \in DOMAIN entries :
              /\ entries[i]["hostname"] = w
              /\ \A j \in DOMAIN entries : entries[j]["hostname"] = w => j <= i]

CountersPublished(p) ==
    LET entries == Entries(p) IN
    /\ nsets[p] = Len(CounterOf) * Len(entries) + 2
    /\ \A i \in DOMAIN entries : \A st \in SevenStatuses :
        LET key == <<flower_host[p], entries[i]["hostname"], st>>
            e == LastOf(entries, entries[i]["hostname"])
        IN  /\ key \in DOMAIN TASKS_WORKER
            /\ TASKS_WORKER[key] = IF FieldOf(st) \in DOMAIN e THEN e[FieldOf(st)] ELSE 0

\* C8: at the end of a successful cycle of the only WorkerPoller of the process,
\* each of the seven series celery_tasks_by_worker{flower=h, worker=hostname,
\* status=s} of every entry exists and holds the entry's field, 0 when the
\* entry lacks the field; seven sets were issued per entry.
C8_WorkerCounters ==
    \A p \in Pollers : (Worker(p) /\ NoRival(p) /\ Published(p)) => CountersPublished(p)

\* w1 was published with all seven counters in an earlier cycle; in the cycle
\* now completed it came without counters, next to w2 with all seven
C8_Witness ==
    \E p \in Pollers :
        /\ Worker(p) /\ NoRival(p) /\ Published(p)
        /\ Len(Entries(p)) = 2
        /\ Entries(p)[1] = [hostname |-> "w1", status |-> FALSE]
        /\ Entries(p)[2]["hostname"] = "w2"
        /\ CounterKeys \subseteq DOMAIN Entries(p)[2]
        /\ TASKS_WORKER[<<flower_host[p], "w1", "succeeded">>] = 0
        /\ TASKS_WORKER[<<flower_host[p], "w2", "succeeded">>] # 0

\* the value of a tagged series after the step
ValueAfter(s) == ValueIn(TASKS_QUEUE', WORKERS', TASKS_WORKER', s)

\* no two poller objects of one class share a host string
DistinctHosts ==
    \A p, q \in Created : (p # q /\ kind[p] = kind[q]) => flower_host[p] # flower_host[q]

\* C9, as claimed: from the end of a poller's initialization to its first
\* successful fetch, every series that was registered in its families when it
\* was initialized reads 0, whatever the other pollers do.
C9_ZeroUntilFirstFetch ==
    DistinctHosts =>
        \A p \in Pollers : ~Initializing(p) => \A s \in known[p] : Value(s) = 0

\* the family the next collect() of p reads
CollectFamily(p) ==
    IF pc[p] = "new" /\ Queue(p) THEN "celery_tasks_by_queue"
    ELSE IF pc[p] = "new" THEN "celery_workers"
    ELSE "celery_tasks_by_worker"

\* the series the next reset of p sets to 0
ResetTarget(p) ==
    IF pc[p] = "reset" /\ Queue(p) THEN {<<"celery_tasks_by_queue", Head(todo[p])>>}
    ELSE IF pc[p] = "reset" THEN {<<"celery_workers", Head(todo[p])>>}
    ELSE IF pc[p] = "reset2" THEN {<<"celery_tasks_by_worker", Head(todo[p])>>}
    ELSE {}

ResetStep(p) ==
    /\ (pc[p] \in {"new", "setup2"} /\ Stepped(p)) =>
          /\ UNCHANGED <<children, gauges>>
          /\ Tagged(CollectFamily(p), todo'[p]) = {s \in AllSeries : s[1] = CollectFamily(p)}
          /\ Tagged(CollectFamily(p), todo'[p]) \subseteq known'[p]
          /\ known[p] \subseteq known'[p]
    /\ (pc[p] \in {"reset", "reset2"} /\ Stepped(p)) =>
          /\ todo'[p] = Tail(todo[p])
          /\ known'[p] = known[p]
          /\ AllSeries' = AllSeries
          /\ \A s \in AllSeries : ValueAfter(s) = IF s \in ResetTarget(p) THEN 0 ELSE Value(s)
    /\ \A s \in known[p] :
          (Value(s) = 0 /\ ValueAfter(s) # 0) =>
              \E q \in Pollers \ {p} : nsets'[q] > nsets[q] /\ s \in Targets(q)

\* C9, amended: the initialization of a poller collects the series registered
\* in each of its families and sets them to 0 one by one, nothing being left to
\* reset when it ends; until the poller's first successful fetch a collected
\* series leaves 0 only by a set of the publish step of another poller.
C9_ResetUntilWritten ==
    /\ [](\A p \in Pollers : (todo[p] # <<>>) <=> pc[p] \in {"reset", "reset2"})
    /\ [][\A p \in Pollers : ResetStep(p)]_vars

\* a poller initialized over registered series, waiting for its first answer
\* with those series at 0, next to a running poller
C9_Witness ==
    \E p \in Pollers :
        /\ known[p] # {} /\ pc[p] = "wait"
        /\ \A s \in known[p] : Value(s) = 0
        /\ \E q \in Pollers \ {p} : pc[q] \in LoopPcs

\* a poller that has reset one of two collected series while the other still
\* holds its value
C9_WitnessPartial ==
    \E p \in Pollers :
        /\ pc[p] = "reset" /\ Len(todo[p]) = 1
        /\ \E s \in known[p] : Value(s) # 0

\* the series belongs to the (host, class) pair of p
Owns(p, s) ==
    /\ s[2][1] = flower_host[p]
    /\ IF Queue(p) THEN s[1] = "celery_tasks_by_queue"
       ELSE s[1] \in {"celery_workers", "celery_tasks_by_worker"}

\* C10, as claimed: with distinct host strings no step of a poller, its
\* initialization included, changes the value of a series of another
\* (host, class) pair.
C10_NoInterference ==
    [][DistinctHosts =>
         \A p \in Pollers : Stepped(p) =>
             \A s \in AllSeries : ValueAfter(s) # Value(s) => Owns(p, s)]_vars

\* the series is still registered after the step, with the same value
KeepsValue(s) == s \in AllSeries' /\ ValueAfter(s) = Value(s)

StalenessStep ==
    /\ \A p \in Pollers : ~Initializing(p) => ~Initializing(p)'
    /\ gauges' # gauges =>
          \A s \in AllSeries :
              \/ KeepsValue(s)
              \/ \E p \in Pollers : Stepped(p) /\ s \in ResetTarget(p)
              \/ \E p \in Pollers : Stepped(p) /\ s \in Targets(p)

\* C11: a poller runs its reset once, in its initialization, and never returns
\* to it; in the loop a series changes only in the set of the entry naming it
\* (or, for celery_workers, in the two sets closing the cycle), so a series of
\* a queue or worker absent from later responses keeps its value until the
\* reset of some poller's initialization reaches it.
C11_ResetOnlyAtInit == [][StalenessStep]_vars

\* a completed cycle whose response does not name w2, with the counters of w2
\* from an earlier cycle still in place
C11_Witness ==
    \E p \in Pollers :
        /\ Worker(p) /\ Published(p)
        /\ \A i \in DOMAIN Entries(p) : Entries(p)[i]["hostname"] # "w2"
        /\ <<flower_host[p], "w2", "succeeded">> \in DOMAIN TASKS_WORKER
        /\ TASKS_WORKER[<<flower_host[p], "w2", "succeeded">>] # 0

\* the payload of the cycle of p has no top-level key of its class
LacksKey(p) ==
    /\ resp[p] # <<>>
    /\ (IF Queue(p) THEN "active_queues" ELSE "data") \notin DOMAIN resp[p][1]

AbsentKeyCycle(p) ==
    LacksKey(p) =>
        /\ ~faulted[p]
        /\ Queue(p) => (pc[p] = "sleep" /\ nsets[p] = 0)
        /\ Worker(p) => /\ pc[p] \in {"set_online", "set_offline", "sleep"}
                        /\ nsets[p] = (CASE pc[p] = "set_online" -> 0
                                         [] pc[p] = "set_offline" -> 1
                                         [] OTHER -> 2)
        /\ pc[p] = "sleep" => (delay[p] = 1 /\ outcome[p] = "ok")

AbsentKeyStep(p) ==
    /\ (pc[p] = "wait" /\ LacksKey(p)') => (UNCHANGED <<children, gauges>> /\ pc'[p] # "dead")
    /\ (LacksKey(p) /\ Acted(p)) =>
          /\ pc'[p] # "dead"
          /\ UNCHANGED <<TASKS_QUEUE, TASKS_WORKER>>
          /\ Queue(p) => UNCHANGED WORKERS
          /\ pc[p] = "sleep" => pc'[p] = "get"

\* C12: a 200 response whose payload lacks active_queues (QueuePoller) or data
\* (WorkerPoller) is iterated as an empty list and is no fault: the QueuePoller
\* sets no gauge in that cycle, the WorkerPoller sets no per-worker series
\* (only its two celery_workers series), and the poller sleeps 1 second and
\* returns to the loop top.
C12_AbsentKeyTolerated ==
    /\ [](\A p \in Pollers : AbsentKeyCycle(p))
    /\ [][\A p \in Pollers : AbsentKeyStep(p)]_vars

\* a QueuePoller and a WorkerPoller that have both completed a cycle on a
\* payload without the key, after cycles that had published qa and an online
\* w1: the series of qa and w1 are as those cycles left them
C12_Witness ==
    \E p, q \in Pollers :
        /\ Queue(p) /\ LacksKey(p) /\ Published(p)
        /\ Worker(q) /\ LacksKey(q) /\ Published(q)
        /\ <<flower_host[p], "qa">> \in DOMAIN TASKS_QUEUE
        /\ TASKS_QUEUE[<<flower_host[p], "qa">>] = MaxMsg
        /\ <<flower_host[q], "w1", "active">> \in DOMAIN TASKS_WORKER
        /\ TASKS_WORKER[<<flower_host[q], "w1", "active">>] # 0
        /\ WORKERS[<<flower_host[q], "online">>] = 0

\* C13, as claimed: registered series are never removed, and a series appears
\* only in a step that issues a set.
C13_CreatedBySet ==
    [][/\ AllSeries \subseteq AllSeries'
       /\ NewSeries # {} => \E p \in Pollers : nsets'[p] > nsets[p]]_vars

GrowStep ==
    /\ <<children, gauges>>' # <<children, gauges>> =>
          /\ AllSeries \subseteq AllSeries'
          /\ \A s \in NewSeries :
                /\ ValueAfter(s) = 0
                /\ \E p \in Pollers : Registered(p)
          /\ \A f \in DOMAIN children :
                {children'[f][i] : i \in DOMAIN children'[f]} = {s[2] : s \in {t \in AllSeries' : t[1] = f}}
    /\ \A p \in Pollers : Stepped(p) => Targets(p) \subseteq AllSeries'

\* C13, amended: registered series are never removed by any step (reset,
\* publish, failure path); a series is registered, at 0, by the labels() call
\* of the publish step on its label combination, before the set that follows
\* and also when that set is not reached, and on no other step.
C13_SeriesOnlyGrow == [][GrowStep]_vars

\* celery_tasks_by_queue{h, qa} is registered at 0 by the lookup of an entry
\* without messages, which ended the poller, while no set and no reset of
\* another poller has touched the family
C13_Witness ==
    \E p, q \in Pollers :
        /\ Queue(p) /\ pc[p] = "dead" /\ nsets[p] = 0
        /\ Queue(q) /\ pc[q] = "new"
        /\ DOMAIN TASKS_QUEUE = {<<flower_host[p], "qa">>}
        /\ TASKS_QUEUE[<<flower_host[p], "qa">>] = 0

\* a poller waiting in requests.get leaves it only when requests.get returns an
\* answer or raises, and nothing of it changes while it waits
HungStep(p) ==
    pc[p] = "wait" =>
        /\ pc'[p] # "wait" => (status_code'[p] # 0 \/ outcome'[p] = "connerr" \/ RequestFault(p)')
        /\ pc'[p] = "wait" =>
              /\ <<resp[p], idx[p], sub[p], nsets[p], delay[p], outcome[p], status_code[p]>>'
                   = <<resp[p], idx[p], sub[p], nsets[p], delay[p], outcome[p], status_code[p]>>
              /\ (<<children, gauges>>' # <<children, gauges>> => \E q \in Pollers \ {p} : Acted(q))

\* C14: while its GET has not returned a poller has no step of its own (no
\* timeout ends the wait), changes no gauge and leaves the wait only when
\* requests.get returns or raises; if the GET of p never returns, every other
\* poller whose endpoint has become stable keeps completing publishing cycles.
C14_HungGetStallsOnlyIssuer ==
    /\ [](\A p \in Pollers : pc[p] = "wait" => ~ENABLED ThreadStep(p))
    /\ [][\A p \in Pollers : HungStep(p)]_vars
    /\ \A p, q \in Pollers :
          p # q => (((<>[](pc[p] = "wait")) /\ <>(stable[q] /\ pc[q] \in {"sleep", "get", "wait"}))
                      => []<>Published(q))

\* the QueuePoller waits in a GET with nothing published or failed so far,
\* while the WorkerPoller of the stable endpoint has completed a cycle
C14_Witness ==
    \E p, q \in Pollers :
        /\ Queue(p) /\ pc[p] = "wait" /\ ~stable[p] /\ fails[p] = 0 /\ TASKS_QUEUE = EmptyDict
        /\ Worker(q) /\ stable[q] /\ Published(q) /\ nsets[q] > 2

\* two poller objects of one class configured with the same host string
Twin(p, q) == p # q /\ kind[p] = kind[q] /\ kind[p] # "none" /\ flower_host[p] = flower_host[q]

\* the value the next set of p puts on its target
Written(p) ==
    CASE pc[p] = "convert" /\ Queue(p) -> Entries(p)[idx[p]]["messages"]
      [] pc[p] = "convert" /\ Worker(p) -> CounterValue(Entries(p)[idx[p]], sub[p] + 1)
      [] pc[p] = "set_online" -> online[p]
      [] pc[p] = "set_offline" -> offline[p]

\* a set of p overwrites its target, whatever it held
LastWriterStep(p) ==
    nsets'[p] > nsets[p] =>
        /\ Targets(p) # {}
        /\ \A s \in Targets(p) : s \in AllSeries /\ ValueAfter(s) = Written(p)

\* a poller before its loop can always take its next initialization step
CanProceed(p) ==
    (Initializing(p) \/ pc[p] = "ready") =>
        /\ ~faulted[p]
        /\ ENABLED (\/ SetupQueue(p) \/ ResetQueue(p) \/ SetupWorkers(p) \/ ResetWorkers(p)
                    \/ SetupTasksWorker(p) \/ ResetTasksWorker(p) \/ Start(p))

\* C15: two pollers of one class with the same host string are both
\* initialized and started, whatever the other has done; their publish steps
\* target the same series and each set overwrites the series, which so holds
\* the value of the poller that wrote last.  (That the registry can then mix
\* the two responses is the reachability of C15_Witness.)
C15_DuplicateHostsMerge ==
    /\ [](\A p, q \in Pollers : Twin(p, q) => CanProceed(p))
    /\ [](\A p, q \in Pollers :
            (Twin(p, q) /\ pc[p] = pc[q] /\ pc[p] \in {"set_online", "set_offline"})
                => Targets(p) = Targets(q))
    /\ [][\A p, q \in Pollers : Twin(p, q) => LastWriterStep(p)]_vars

\* two WorkerPollers of one host have completed a cycle, one on a response
\* with w1 online and one with w1 offline, and the registry shows one online
\* and one offline worker: a mix no single response gave
C15_Witness ==
    \E p, q \in Pollers :
        /\ Twin(p, q) /\ Worker(p) /\ Published(p) /\ Published(q)
        /\ Len(Entries(p)) = 1 /\ Entries(p)[1]["status"]
        /\ Len(Entries(q)) = 1 /\ ~Entries(q)[1]["status"]
        /\ WORKERS[<<flower_host[p], "online">>] = 1
        /\ WORKERS[<<flower_host[p], "offline">>] = 1

\* the series the step registers or changes
Touched == {s \in AllSeries' : s \notin AllSeries \/ ValueAfter(s) # Value(s)}

OwnWritesStep(p) ==
    (Acted(p) /\ gauges' # gauges) =>
        /\ Queue(p) => UNCHANGED <<WORKERS, TASKS_WORKER>>
        /\ Worker(p) => UNCHANGED TASKS_QUEUE
        /\ ~Initializing(p) => \A s \in Touched : Owns(p, s) /\ s \in Targets(p)

\* C16: a QueuePoller never writes celery_workers or celery_tasks_by_worker and
\* a WorkerPoller never writes celery_tasks_by_queue, in the reset as in the
\* cycle; in the loop a poller registers and writes only series of its own
\* families whose flower label is its own host.  Every change of the registry
\* is the step of some poller.
C16_WritesOwnSeries ==
    [][/\ gauges' # gauges => \E p \in Pollers : Acted(p)
       /\ \A p \in Pollers : OwnWritesStep(p)]_vars

\* a QueuePoller and a WorkerPoller of different hosts have both published
C16_Witness ==
    \E p, q \in Pollers :
        /\ Queue(p) /\ Worker(q) /\ flower_host[p] # flower_host[q]
        /\ Published(p) /\ nsets[p] > 0 /\ Published(q) /\ nsets[q] > 2
        /\ DOMAIN TASKS_QUEUE = {<<flower_host[p], "qa">>}
        /\ <<flower_host[q], "w1", "active">> \in DOMAIN TASKS_WORKER

\* what a scrape reads for celery_workers{flower=h, status=st}: 0 while the
\* series is not registered
Scraped(w, h, st) == IF <<h, st>> \in DOMAIN w THEN w[<<h, st>>] ELSE 0

\* the pair <<online, offline>> a scrape reads for host h
ScrapedPair(w, h) == <<Scraped(w, h, "online"), Scraped(w, h, "offline")>>

\* the pair of the response the publish step of p is closing
ResponsePair(p) == <<online[p], offline[p]>>

\* C17, as claimed: for the host of the only WorkerPoller every scrape reads an
\* online and an offline value of the same response: a step leaves the pair
\* as it was (the pair of the previous response, or 0 and 0) or makes it the
\* pair of the response being published.
C17_ScrapeConsistent ==
    [][\A p \in Pollers : (Worker(p) /\ NoRival(p)) =>
          \/ ScrapedPair(WORKERS', flower_host[p]) = ScrapedPair(WORKERS, flower_host[p])
          \/ /\ pc[p] \in {"set_online", "set_offline"}
             /\ ScrapedPair(WORKERS', flower_host[p]) = ResponsePair(p)]_vars

TornStep(p) ==
    LET h == flower_host[p] IN
    /\ (pc[p] = "set_online" /\ Stepped(p)) =>
          /\ Scraped(WORKERS', h, "online") = online[p]
          /\ Scraped(WORKERS', h, "offline") = Scraped(WORKERS, h, "offline")
    /\ (pc[p] = "set_offline" /\ Stepped(p)) =>
          ScrapedPair(WORKERS', h) = ResponsePair(p)
    /\ (pc[p] \notin {"set_online", "set_offline"} \/ ~Stepped(p)) =>
          ScrapedPair(WORKERS', h) = ScrapedPair(WORKERS, h)

\* C17, amended: for the host of the only WorkerPoller the scraped pair changes
\* in the two closing sets of a publish step only; after the second set it is
\* the pair of the published response, and between the two sets online is the
\* count of the response being published while offline is still the value of
\* the previous publish.
C17_ScrapeTornBetweenSets ==
    /\ [](\A p \in Pollers : (Worker(p) /\ NoRival(p) /\ pc[p] = "set_offline") =>
              Scraped(WORKERS, flower_host[p], "online") = online[p])
    /\ [][\A p \in Pollers : (Worker(p) /\ NoRival(p)) => TornStep(p)]_vars

\* between the two sets: two online workers of the response being published
\* next to the two offline workers of the previous one
C17_Witness ==
    \E p \in Pollers :
        /\ Worker(p) /\ NoRival(p) /\ pc[p] = "set_offline"
        /\ Len(Entries(p)) = 2 /\ ResponsePair(p) = <<2, 0>>
        /\ ScrapedPair(WORKERS, flower_host[p]) = <<2, 2>>

\* the cycle of WorkerPoller p holds a payload with an entry lacking hostname
\* or status: it will end in a payload fault
FaultyCycle(p) == Worker(p) /\ resp[p] # <<>> /\ ~ValidPayload(kind[p], resp[p][1])

\* C18, as claimed: no step of a WorkerPoller cycle that ends in a payload
\* fault changes the registry: neither the series of the entry lacking status
\* or hostname, nor those of the entries before it, nor celery_workers.
C18_FaultLeavesRegistry ==
    [][\A p \in Pollers : (FaultyCycle(p) /\ Acted(p)) => UNCHANGED gauges]_vars

\* the n-th of lines 102-109 is done for the k-th entry of the cycle of p
Done(p, k, n) == k < idx[p] \/ (k = idx[p] /\ n <= sub[p])

\* the last entry with the hostname of the k-th for which the n-th set is done
LastDone(p, k, n) ==
    Entries(p)[CHOOSE j \in DOMAIN Entries(p) :
                 /\ Done(p, j, n) /\ Entries(p)[j]["hostname"] = Entries(p)[k]["hostname"]
                 /\ \A i \in DOMAIN Entries(p) :
                       (Done(p, i, n) /\ Entries(p)[i]["hostname"] = Entries(p)[k]["hostname"]) => i <= j]

\* every set the cycle has done so far is in the registry
PartialPublish(p) ==
    \A k \in DOMAIN Entries(p) : \A n \in DOMAIN CounterOf :
        Done(p, k, n) =>
            /\ CounterKey(flower_host[p], Entries(p)[k], n) \in DOMAIN TASKS_WORKER
            /\ TASKS_WORKER[CounterKey(flower_host[p], Entries(p)[k], n)]
                 = CounterValue(LastDone(p, k, n), n)

PartialPublishStep(p) ==
    (FaultyCycle(p) /\ Acted(p)) =>
        LET e == Entries(p)[idx[p]]
            h == flower_host[p]
        IN  /\ UNCHANGED <<WORKERS, TASKS_QUEUE>>
            /\ pc'[p] = "dead" <=> \/ "hostname" \notin DOMAIN e
                                   \/ "status" \notin DOMAIN e /\ nsets'[p] > nsets[p]
                                          /\ sub[p] + 1 = Len(CounterOf)
            /\ IF "hostname" \notin DOMAIN e THEN UNCHANGED TASKS_WORKER
               ELSE /\ CounterKey(h, e, sub[p] + 1) \in DOMAIN TASKS_WORKER'
                    /\ TASKS_WORKER'[CounterKey(h, e, sub[p] + 1)]
                         = IF Stepped(p) THEN CounterValue(e, sub[p] + 1) ELSE 0
                    /\ \A k \in DOMAIN TASKS_WORKER :
                          k # CounterKey(h, e, sub[p] + 1) => TASKS_WORKER'[k] = TASKS_WORKER[k]

\* C18, amended: a WorkerPoller cycle that ends in a payload fault never sets
\* celery_workers, but it is not undone: every set of lines 102-109 it has
\* done stays in the registry, those of the entries before the faulty one and,
\* for an entry lacking only status, all seven of that entry, after which the
\* fault is raised; an entry lacking hostname sets nothing.
C18_FaultKeepsPartialPublish ==
    /\ [](\A p \in Pollers : FaultyCycle(p) => (pc[p] = "convert" /\ (NoRival(p) => PartialPublish(p))))
    /\ [][\A p \in Pollers : PartialPublishStep(p)]_vars

\* a first cycle ended by its second entry, which lacks status: the seven
\* series of both entries are set and celery_workers was never written
C18_Witness ==
    \E p \in Pollers :
        /\ Worker(p) /\ pc[p] = "dead" /\ nsets[p] = 14
        /\ WORKERS = EmptyDict
        /\ <<flower_host[p], "w1", "active">> \in DOMAIN TASKS_WORKER
        /\ <<flower_host[p], "w2", "active">> \in DOMAIN TASKS_WORKER
        /\ TASKS_WORKER[<<flower_host[p], "w1", "active">>] # 0
        /\ TASKS_WORKER[<<flower_host[p], "w2", "active">>] # 0

====
